---------------------------- MODULE Spec2Model ----------------------------
(***************************************************************************)
(* Model of temp_ico_convert.py: open icon.png, resize it to six square    *)
(* sizes, and save images[0] as an ICO file with the sizes list declared.  *)
(* The Pillow calls the script makes (Image.open, Image.resize,            *)
(* Image.save with format='ICO') are modelled by what they do.             *)
(***************************************************************************)
EXTENDS Integers, Sequences, FiniteSets, TLC

VARIABLES
    fs,          \* the filesystem: path -> file
    writable,    \* whether ico_path can be opened for writing
    pc,          \* position of the script
    img,         \* the image Image.open returned
    loaded,      \* whether img's pixel data has been decoded (open is lazy)
    sizes,       \* the sizes list
    images,      \* the images list
    error,       \* the exception that ended the run, or "none"
    resizeArgs,  \* history: the size argument of every img.resize call
    saveArgs     \* history: the arguments of every .save call

vars == <<fs, writable, pc, img, loaded, sizes, images, error, resizeArgs, saveArgs>>

----------------------------------------------------------------------------
(* Bounds of the model                                                     *)

\* source widths and heights are 10 and 8 * 2^k for k in 0..MaxDoublings
MaxDoublings == 6

SrcDims == {10} \cup { 8 * (2 ^ k) : k \in 0..MaxDoublings }

\* image modes of the source: true colour with alpha, and palette
Modes == {"RGBA", "P"}

----------------------------------------------------------------------------
(* The script's literals                                                   *)

icon_path == "/Users/jolsen/Documents/_git/playground/assets/icon.png"

ico_path == "/Users/jolsen/Documents/_git/playground/assets/icon.ico"

Paths == {icon_path, ico_path}

SizesLiteral == <<16, 32, 48, 64, 128, 256>>

----------------------------------------------------------------------------
(* Files and bitmaps                                                       *)

\* kind: "absent"    no file at the path
\*       "garbage"   a file whose content no decoder identifies
\*       "truncated" an image file with a readable header and broken pixel data
\*       "image"     a decodable image file
\*       "ico"       an ICO container: dir[i] is the directory entry of data[i]
File(kind, w, h, mode) ==
    [kind |-> kind, w |-> w, h |-> h, mode |-> mode, idCount |-> 0, dir |-> <<>>, data |-> <<>>]

AbsentFile == File("absent", 0, 0, "none")

GarbageFile == File("garbage", 0, 0, "none")

\* a bitmap: its size, its mode, and the resampling steps that produced its
\* pixels from the decoded source pixels (<<>> is the source's own pixels)
Bitmap(w, h, mode, pix) == [w |-> w, h |-> h, mode |-> mode, pix |-> pix]

NoImage == Bitmap(0, 0, "none", <<>>)

SizeOf(im) == <<im.w, im.h>>

SourceFiles ==
    {AbsentFile, GarbageFile}
        \cup { File(k, w, h, m) : k \in {"truncated", "image"}, w \in SrcDims, h \in SrcDims, m \in Modes }

DestFiles == {AbsentFile, GarbageFile}

----------------------------------------------------------------------------
(* Image.open                                                              *)

\* variant of OpenError: only a missing file is rejected at open
OpenErrorMissingOnly(f) == IF f.kind = "absent" THEN "FileNotFoundError" ELSE "none"

\* the exception Image.open raises on a file, or "none"
OpenError(f) ==
    IF f.kind = "absent" THEN "FileNotFoundError"
    ELSE IF f.kind = "garbage" THEN "UnidentifiedImageError"
    ELSE "none"

\* the image Image.open returns: size and mode from the header, pixels not yet read
OpenImage(f) == Bitmap(f.w, f.h, f.mode, <<>>)

\* the exception Image.load raises when the pixel data is read, or "none"
LoadError(f) == IF f.kind = "truncated" THEN "OSError" ELSE "none"

----------------------------------------------------------------------------
(* Image.resize                                                            *)

\* the filter resize really uses: bilevel and palette images are resampled
\* with NEAREST whatever filter was asked for
ResampleFor(mode, resample) == IF mode \in {"1", "P"} THEN "NEAREST" ELSE resample

\* variant of Resize: never enlarges, as thumbnail does
ResizeNoEnlarge(im, size, resample) ==
    IF size[1] >= im.w /\ size[2] >= im.h
    THEN im
    ELSE Bitmap(size[1], size[2], im.mode,
                Append(im.pix, [filter |-> ResampleFor(im.mode, resample),
                                w |-> size[1], h |-> size[2]]))

\* variant of Resize: fits the width and keeps the aspect ratio
ResizeKeepAspect(im, size, resample) ==
    LET nh == IF (size[1] * im.h) \div im.w >= 1 THEN (size[1] * im.h) \div im.w ELSE 1
    IN  IF SizeOf(im) = <<size[1], nh>>
        THEN im
        ELSE Bitmap(size[1], nh, im.mode,
                    Append(im.pix, [filter |-> ResampleFor(im.mode, resample),
                                    w |-> size[1], h |-> nh]))

\* im.resize(size, resample): a new bitmap of exactly the size asked for;
\* a copy of im when im already has that size
Resize(im, size, resample) ==
    IF SizeOf(im) = size
    THEN im
    ELSE Bitmap(size[1], size[2], im.mode,
                Append(im.pix, [filter |-> ResampleFor(im.mode, resample),
                                w |-> size[1], h |-> size[2]]))

\* resize returns a new image and leaves the image it was called on as it was
SelfAfterResize(im, size) == im

----------------------------------------------------------------------------
(* Image.thumbnail, used by the ICO encoder                                *)

Abs(n) == IF n < 0 THEN -n ELSE n

Max(a, b) == IF a >= b THEN a ELSE b

FloorDiv(a, b) == a \div b

CeilDiv(a, b) == (a + b - 1) \div b

\* the size thumbnail scales to: at most size, keeping im's aspect ratio;
\* SizeOf(im) when im already fits
ThumbnailSize(im, size) ==
    LET x == size[1]
        y == size[2]
        w == im.w
        h == im.h
        \* x branch: number = y * w / h, key(n) = |w/h - n/y|
        xf == FloorDiv(y * w, h)
        xc == CeilDiv(y * w, h)
        xr == IF Abs(w * y - xf * h) <= Abs(w * y - xc * h) THEN xf ELSE xc
        \* y branch: number = x * h / w, key(n) = 0 if n = 0 else |w/h - x/n|
        yf == FloorDiv(x * h, w)
        yc == CeilDiv(x * h, w)
        yr == IF yf = 0 \/ Abs(w * yf - x * h) * yc <= Abs(w * yc - x * h) * yf
              THEN yf ELSE yc
    IN  IF x >= w /\ y >= h THEN SizeOf(im)
        ELSE IF x * h >= w * y THEN <<Max(xr, 1), y>>
        ELSE <<x, Max(yr, 1)>>

\* a copy of im after copy.thumbnail(size, LANCZOS, reducing_gap=None)
Thumbnail(im, size) ==
    IF ThumbnailSize(im, size) = SizeOf(im)
    THEN im
    ELSE Resize(im, ThumbnailSize(im, size), "LANCZOS")

----------------------------------------------------------------------------
(* The ICO encoder behind Image.save(format='ICO', sizes=...)              *)

Range(s) == { s[k] : k \in 1..Len(s) }

SizeLess(a, b) == a[1] < b[1] \/ (a[1] = b[1] /\ a[2] < b[2])

MinSize(S) == CHOOSE a \in S : \A b \in S \ {a} : SizeLess(a, b)

RECURSIVE SortedSizes(_)
\* sorted(set(sizes))
SortedSizes(S) ==
    IF S = {} THEN <<>> ELSE <<MinSize(S)>> \o SortedSizes(S \ {MinSize(S)})

\* the requested sizes the encoder keeps: none larger than the image it was
\* called on, none larger than 256
KeptSizes(im, szs) ==
    { s \in Range(szs) : ~(s[1] > im.w \/ s[2] > im.h \/ s[1] > 256 \/ s[2] > 256) }

\* the frames the encoder writes, given the image save was called on: for
\* each kept size, that image if it has the size, else a thumbnail of it
IcoFrames(im, szs) ==
    LET kept == SortedSizes(KeptSizes(im, szs))
    IN  [ k \in 1..Len(kept) |->
            IF SizeOf(im) = kept[k] THEN im ELSE Thumbnail(im, kept[k]) ]

\* a dimension as the directory's one byte holds it: 0 means 256
O8Dim(n) == IF n < 256 THEN n ELSE 0

\* the dimension a directory byte declares
DeclaredDim(b) == IF b = 0 THEN 256 ELSE b

\* the directory entry of a frame: written from the frame's own size
DirEntry(frame) == [bWidth |-> O8Dim(frame.w), bHeight |-> O8Dim(frame.h)]

\* the container written from a sequence of frames
IcoContainer(frames) ==
    [kind |-> "ico", w |-> 0, h |-> 0, mode |-> "none",
     idCount |-> Len(frames),
     dir |-> [ k \in 1..Len(frames) |-> DirEntry(frames[k]) ],
     data |-> frames]

\* variant of IcoSave: one directory entry per requested size, each over
\* the pixel data of the image save was called on
IcoSaveDeclaredAll(im, szs) ==
    [kind |-> "ico", w |-> 0, h |-> 0, mode |-> "none",
     idCount |-> Len(szs),
     dir |-> [ k \in 1..Len(szs) |-> [bWidth |-> O8Dim(szs[k][1]), bHeight |-> O8Dim(szs[k][2])] ],
     data |-> [ k \in 1..Len(szs) |-> im ]]

\* the file im.save(fp, format='ICO', sizes=szs) writes
IcoSave(im, szs) == IcoContainer(IcoFrames(im, szs))

\* the size frame k of a container declares, and the size of its pixel data
FrameDeclared(f, k) == <<DeclaredDim(f.dir[k].bWidth), DeclaredDim(f.dir[k].bHeight)>>

FramePixels(f, k) == SizeOf(f.data[k])

----------------------------------------------------------------------------
(* The script                                                              *)

\* variant of DeclaredSizes: [(s, s) for s in sizes[1:]]
DeclaredSizesTail(szs) == [ k \in 1..(Len(szs) - 1) |-> <<szs[k + 1], szs[k + 1]>> ]

\* [(s, s) for s in sizes]
DeclaredSizes(szs) == [ k \in 1..Len(szs) |-> <<szs[k], szs[k]>> ]

\* variant of Primary: images[-1]
PrimaryLast(ims) == ims[Len(ims)]

\* images[0]
Primary(ims) == ims[1]

\* variant of SaveTarget: the save writes over the source
SaveTargetSource == icon_path

\* the path the save writes
SaveTarget == ico_path

\* variant of LoopDone: the loop stops one element early
LoopDoneEarly(n, szs) == n = Len(szs) - 1

\* the for loop is over once every element of sizes has been visited
LoopDone(n, szs) == n = Len(szs)

Init ==
    /\ fs \in { [p \in Paths |-> IF p = icon_path THEN s ELSE d] :
                    s \in SourceFiles, d \in DestFiles }
    /\ writable \in BOOLEAN
    /\ pc = "open"
    /\ img = NoImage
    /\ loaded = FALSE
    /\ sizes = <<>>
    /\ images = <<>>
    /\ error = "none"
    /\ resizeArgs = <<>>
    /\ saveArgs = <<>>

\* line 8: img = Image.open(icon_path)
Open ==
    /\ pc = "open"
    /\ IF OpenError(fs[icon_path]) # "none"
       THEN /\ error' = OpenError(fs[icon_path])
            /\ pc' = "failed"
            /\ img' = img
       ELSE /\ img' = OpenImage(fs[icon_path])
            /\ pc' = "init"
            /\ error' = error
    /\ UNCHANGED <<fs, writable, loaded, sizes, images, resizeArgs, saveArgs>>

\* lines 9-10: sizes = [16, 32, 48, 64, 128, 256]; images = []
Setup ==
    /\ pc = "init"
    /\ sizes' = SizesLiteral
    /\ images' = <<>>
    /\ pc' = "loop"
    /\ UNCHANGED <<fs, writable, img, loaded, error, resizeArgs, saveArgs>>

\* lines 12-14: one iteration of the loop; the first resize decodes the pixels
ResizeStep ==
    /\ pc = "loop"
    /\ ~LoopDone(Len(images), sizes)
    /\ LET size == sizes[Len(images) + 1]
           resized == Resize(img, <<size, size>>, "LANCZOS")
       IN  /\ resizeArgs' = Append(resizeArgs, <<size, size>>)
           /\ IF ~loaded /\ LoadError(fs[icon_path]) # "none"
              THEN /\ error' = LoadError(fs[icon_path])
                   /\ pc' = "failed"
                   /\ UNCHANGED <<img, loaded, images>>
              ELSE /\ loaded' = TRUE
                   /\ img' = SelfAfterResize(img, <<size, size>>)
                   /\ images' = Append(images, resized)
                   /\ pc' = IF LoopDone(Len(images) + 1, sizes) THEN "save" ELSE "loop"
                   /\ error' = error
    /\ UNCHANGED <<fs, writable, sizes, saveArgs>>

\* line 16: images[0].save(ico_path, format='ICO', sizes=[(s, s) for s in sizes])
Save ==
    /\ pc = "save"
    /\ LET im == Primary(images)
           szs == DeclaredSizes(sizes)
       IN  /\ saveArgs' = Append(saveArgs, [im |-> im, sizes |-> szs])
           /\ IF ~writable
              THEN /\ error' = "OSError"
                   /\ pc' = "failed"
                   /\ fs' = fs
              ELSE /\ fs' = [fs EXCEPT ![SaveTarget] = IcoSave(im, szs)]
                   /\ pc' = "done"
                   /\ error' = error
    /\ UNCHANGED <<writable, img, loaded, sizes, images, resizeArgs>>

Next == Open \/ Setup \/ ResizeStep \/ Save

Spec == Init /\ [][Next]_vars

\* the interpreter runs the script to its end or to the first exception
FairSpec == Spec /\ WF_vars(Next)

----------------------------------------------------------------------------
(* Properties                                                              *)

Src == fs[icon_path]

Dst == fs[ico_path]

Square(n) == <<n, n>>

Succeeded == pc = "done"

Terminated == pc \in {"done", "failed"}

\* the source cannot be decoded: missing, unidentifiable, or broken pixel data
SrcBad == Src.kind \in {"absent", "garbage", "truncated"}

\* a decodable source with a side shorter than the largest target size
SrcSmall == Src.kind = "image" /\ (Src.w < 256 \/ Src.h < 256)

\* a decodable square source of at least 256x256
SrcLargeSquare == Src.kind = "image" /\ Src.w = Src.h /\ Src.w >= 256

\* C1: after a successful run on a valid square source of at least 256x256
\* the destination holds exactly six frames, 16, 32, 48, 64, 128 and 256
\* pixels square, in that order, none missing and none duplicated.
C1_SixFrames ==
    (Succeeded /\ SrcLargeSquare) =>
        /\ Dst.kind = "ico"
        /\ Dst.idCount = 6
        /\ \A k \in 1..6 :
              /\ FramePixels(Dst, k) = Square(SizesLiteral[k])
              /\ FrameDeclared(Dst, k) = Square(SizesLiteral[k])

\* C2: in every container the script writes, the size each directory entry
\* declares is the size of the pixel data of its frame.
C2_DeclaredMatchesPixels ==
    \A p \in Paths :
        fs[p].kind = "ico" =>
            /\ Len(fs[p].dir) = fs[p].idCount
            /\ Len(fs[p].data) = fs[p].idCount
            /\ \A k \in 1..fs[p].idCount : FrameDeclared(fs[p], k) = FramePixels(fs[p], k)

C2_Witness == Succeeded /\ Dst.kind = "ico" /\ Dst.idCount >= 1

\* C3 as claimed: when the source is missing or not decodable the open step
\* fails, no resize and no save is executed, and the destination is not
\* created or modified.
C3_OpenFailsFirst ==
    SrcBad =>
        /\ pc \in {"open", "failed"}
        /\ resizeArgs = <<>>
        /\ saveArgs = <<>>
        /\ Dst.kind # "ico"

C3_State ==
    SrcBad =>
        /\ saveArgs = <<>>
        /\ images = <<>>
        /\ Dst.kind # "ico"
        /\ Len(resizeArgs) <= 1
        /\ pc \in {"open", "init", "loop", "failed"}
        /\ (Src.kind \in {"absent", "garbage"} =>
                /\ pc \in {"open", "failed"}
                /\ resizeArgs = <<>>)
        /\ (Src.kind = "truncated" /\ resizeArgs # <<>> => pc = "failed")
        /\ (pc = "failed" => error # "none")

\* C3 amended: a missing or unidentifiable source fails the open step before
\* any resize; a source with a readable header and undecodable pixel data
\* fails the first resize before any variant is collected; in every such
\* case the run aborts, the save step is never executed and the destination
\* file is neither created nor modified.
C3_AbortsBeforeSave ==
    /\ []C3_State
    /\ [][SrcBad => fs' = fs]_vars
    /\ (SrcBad ~> pc = "failed")

C3_Witness ==
    /\ Src.kind = "garbage"
    /\ pc = "failed"
    /\ error = "UnidentifiedImageError"
    /\ Dst = GarbageFile

\* the filter that produced a resampled bitmap's pixels
FilterOf(im) == im.pix[Len(im.pix)].filter

C4_State ==
    (SrcSmall /\ writable) =>
        /\ pc # "failed"
        /\ error = "none"
        /\ \A k \in 1..Len(images) :
              /\ SizeOf(images[k]) = Square(SizesLiteral[k])
              /\ (SizeOf(img) # Square(SizesLiteral[k]) =>
                    /\ images[k].pix # <<>>
                    /\ (img.mode # "P" => FilterOf(images[k]) = "LANCZOS")
                    /\ \A j \in 1..Len(images) :
                          images[j].pix # <<>> => FilterOf(images[j]) = FilterOf(images[k]))
        /\ (Succeeded =>
                /\ Len(images) = 6
                /\ Len(saveArgs) = 1
                /\ Dst.kind = "ico")

\* C4: for a source smaller than the largest target size the run succeeds
\* (given a writable destination): each of the six resize steps yields the
\* variant of its size, upsampled where the source is smaller, all with the
\* same filter, and the save step completes and writes the destination.
C4_SmallSourceSucceeds ==
    /\ []C4_State
    /\ ((SrcSmall /\ writable) ~> (Succeeded /\ Dst.kind = "ico"))

C4_Witness ==
    /\ Src.kind = "image" /\ Src.w = 10 /\ Src.h = 10
    /\ Succeeded
    /\ Len(images) = 6
    /\ images[6].w = 256
    /\ Dst.kind = "ico"

\* C5: a step of the run changes no file but the destination; the source
\* file is never written, no resize step changes the source image, and the
\* sizes list stays as assigned.
C5_OnlyDestinationChanges ==
    [][ /\ fs'[icon_path] = fs[icon_path]
        /\ (pc # "save" => fs' = fs)
        /\ (pc = "loop" => img' = img)
        /\ (pc \in {"loop", "save"} => sizes' = sizes /\ sizes = SizesLiteral) ]_vars

C5_Witness ==
    /\ Succeeded
    /\ Src.kind = "image"
    /\ img = OpenImage(Src)
    /\ sizes = SizesLiteral
    /\ Dst.kind = "ico"
    /\ Len(resizeArgs) = 6

\* C6: when the save step runs, the dimensions declared to the encoder are
\* the dimensions the resize loop used: six of them, same values, same
\* order, each the square of an element of the sizes list.
C6_DeclaredEqualsResized ==
    saveArgs # <<>> =>
        /\ saveArgs[1].sizes = resizeArgs
        /\ Len(resizeArgs) = 6
        /\ Len(saveArgs[1].sizes) = 6
        /\ sizes = SizesLiteral
        /\ \A k \in 1..6 : resizeArgs[k] = Square(sizes[k])

C6_Witness == Len(saveArgs) = 1 /\ Len(saveArgs[1].sizes) = 6 /\ Terminated

\* C7: after a successful run, for every index i the container holds a
\* frame declared with dimension sizes[i] that carries the pixel data of
\* images[i].
C7_AllVariantsEncoded ==
    Succeeded =>
        \A i \in 1..Len(sizes) :
            \E k \in 1..Dst.idCount :
                /\ FrameDeclared(Dst, k) = Square(sizes[i])
                /\ Dst.data[k] = images[i]

C8_State ==
    /\ Len(saveArgs) <= 1
    /\ Len(resizeArgs) <= 6
    /\ (pc \in {"open", "init"} => resizeArgs = <<>> /\ images = <<>>)
    /\ \A k \in 1..Len(resizeArgs) : resizeArgs[k] = Square(SizesLiteral[k])
    /\ \A k \in 1..Len(images) :
          /\ SizeOf(images[k]) = Square(SizesLiteral[k])
          /\ images[k] = Resize(img, Square(sizes[k]), "LANCZOS")
    /\ (pc = "loop" => Len(images) = Len(resizeArgs) /\ Len(images) < 6 /\ saveArgs = <<>>)
    /\ (pc = "save" => Len(images) = 6 /\ Len(resizeArgs) = 6 /\ saveArgs = <<>>)
    /\ (saveArgs # <<>> => Len(images) = 6 /\ Len(resizeArgs) = 6)
    /\ (Succeeded => Len(saveArgs) = 1)

\* C8: the run always terminates; the steps come in the order load, six
\* resizes, save; the loop visits 16, 32, 48, 64, 128, 256 in that order;
\* after k iterations images holds the k variants of the first k sizes; the
\* save step runs at most once, only after all six variants are collected,
\* and exactly once in a run that ends without an exception.
C8_Sequential ==
    /\ []C8_State
    /\ <>Terminated

C8_Witness ==
    /\ Succeeded
    /\ Len(resizeArgs) = 6
    /\ Len(images) = 6
    /\ Len(saveArgs) = 1
    /\ resizeArgs[6] = <<256, 256>>

\* C9: the image the save step is invoked on is images[0], the 16x16
\* variant: no collected variant is smaller and its dimension is the
\* minimum of the sizes list.
C9_PrimaryIsSmallest ==
    saveArgs # <<>> =>
        /\ saveArgs[1].im = images[1]
        /\ SizeOf(saveArgs[1].im) = <<16, 16>>
        /\ \A k \in 1..Len(images) :
              images[k].w >= saveArgs[1].im.w /\ images[k].h >= saveArgs[1].im.h
        /\ \A k \in 1..Len(sizes) : sizes[k] >= saveArgs[1].im.w
        /\ \E k \in 1..Len(sizes) : sizes[k] = saveArgs[1].im.w

C9_Witness == Len(saveArgs) = 1 /\ saveArgs[1].im.w = 16 /\ Len(images) = 6

\* C10: for every target size N and every opened source, of any width and
\* height, resizing to N yields an N x N bitmap, and resizing that result
\* to N again yields an N x N bitmap.
C10_ResizeDimension ==
    /\ \A k \in 1..Len(images) :
          /\ SizeOf(images[k]) = resizeArgs[k]
          /\ SizeOf(Resize(images[k], resizeArgs[k], "LANCZOS")) = resizeArgs[k]
    /\ (img # NoImage =>
          \A k \in 1..Len(SizesLiteral) :
              LET n == SizesLiteral[k]
                  once == Resize(img, Square(n), "LANCZOS")
                  twice == Resize(once, Square(n), "LANCZOS")
              IN  SizeOf(once) = Square(n) /\ SizeOf(twice) = Square(n))

C10_Witness ==
    /\ Len(images) = 6
    /\ img.w > 256
    /\ img.h < 16
    /\ SizeOf(images[1]) = <<16, 16>>
    /\ SizeOf(images[6]) = <<256, 256>>

=============================================================================
